---- MODULE Spec2Model ----
(***************************************************************************)
(* Model of go-proj's storage synchronisation: Dropbox.WalkDiffs and the   *)
(* two reconcilers built on it, ProjectRepository.Upload (push) and        *)
(* ProjectRepository.Pull (pull).                                          *)
(*                                                                         *)
(* The local project folder and the remote namespace are maps from full    *)
(* path to file content (a sequence of bytes).  One invocation is split    *)
(* into the steps between which the environment answers: the prelude with  *)
(* the remote listing, one step per entry filepath.Walk visits, one step   *)
(* per entry of the final range over the remaining map, and the return.    *)
(* Every backend or filesystem call may succeed or fail.                   *)
(***************************************************************************)
EXTENDS Integers, Sequences, FiniteSets, TLC

\* ------------------------------------------------------------------ bounds
NumPaths == 3          \* relative paths 1..NumPaths, numbered in lexical order
MaxRuns == 2           \* invocations issued one after another in one behaviour
MaxStream == 4         \* longest byte stream handed to ContentHash
MaxFilters == 2        \* most filters handed to ProjectRepository.List
MaxFile == 6           \* longest file handed to Dropbox.Upload

\* hashBlockSize of the source (4 MiB), scaled down to two bytes
hashBlockSize == 2

\* chunkSize of the source (16 MiB), scaled down to two bytes
chunkSize == 2

Paths == 1..NumPaths

\* file contents the model draws from: two one-byte files that differ, one
\* three-byte file (two hash blocks)
ContentA == <<1>>
ContentB == <<2>>
ContentC == <<1, 1, 1>>

\* ------------------------------------------------------------------ paths
folder == "folder"                 \* fr.Path(name)
remoteFolder == "remoteFolder"     \* "/" + name

\* path.Join(root, rel)
Join(root, rel) == <<root, rel>>

\* filepath.Rel(root, full) for a path below root
Rel(root, full) == full[2]

\* ------------------------------------------------------------------ maps
EmptyMap == [q \in {} |-> <<>>]
Put(f, k, v) == [q \in (DOMAIN f) \cup {k} |-> IF q = k THEN v ELSE f[q]]
Remove(f, k) == [q \in (DOMAIN f) \ {k} |-> f[q]]

Min(a, b) == IF a < b THEN a ELSE b

\* ------------------------------------------------------------------ hashing
\* sha256 as a collision-free function: the digest is the term itself
Sha256(bytes) == <<"sha256", bytes>>

\* fmt.Sprintf("%x", digest)
Hex(digest) == <<"hex", digest>>

\* ContentHash's read loop over a reader that fills the buffer (os.File on a
\* regular file): acc is what has been written to resultHash so far
RECURSIVE HashBlocks(_, _, _)
HashBlocks(data, pos, acc) ==
    LET n == Min(hashBlockSize, Len(data) - pos)
        acc2 == IF n > 0
                THEN Append(acc, Sha256(SubSeq(data, pos + 1, pos + n)))
                ELSE acc
    IN  IF n = hashBlockSize THEN HashBlocks(data, pos + n, acc2) ELSE acc2

ContentHash(data) == Hex(Sha256(HashBlocks(data, 0, <<>>)))

\* an io.Reader over stream: the k-th Read returns reads[k] bytes; the last of
\* them returns io.EOF with its bytes when eofWithData, else the Read after
\* it returns (0, io.EOF)
Read(r, k) ==
    IF k > Len(r.reads)
    THEN [n |-> 0, eof |-> TRUE]
    ELSE [n |-> r.reads[k], eof |-> (k = Len(r.reads) /\ r.eofWithData)]

\* a loop that writes the digest of what Read returned even when that is empty
blockWrittenAlways(acc, block) == Append(acc, Sha256(block))
\* if n > 0 { resultHash.Write(sha256.Sum256(buf[:n])) }
blockWritten(acc, block) ==
    IF Len(block) > 0 THEN Append(acc, Sha256(block)) ELSE acc

\* for n == hashBlockSize && err == nil { n, err = r.Read(buf); ... }: k is
\* the next Read, pos the bytes consumed, n and eof the last Read's result
RECURSIVE readLoop(_, _, _, _, _, _)
readLoop(r, k, pos, n, eof, acc) ==
    IF n = hashBlockSize /\ ~eof
    THEN LET rd == Read(r, k)
         IN  readLoop(r, k + 1, pos + rd.n, rd.n, rd.eof,
                      blockWritten(acc, SubSeq(r.stream, pos + 1, pos + rd.n)))
    ELSE [digests |-> acc, consumed |-> pos]

\* ContentHash(r) for a reader that returns no error but io.EOF: the
\* fingerprint, and the bytes of the stream it has read
ContentHashOf(r) ==
    LET rd == Read(r, 1)
        end == readLoop(r, 2, rd.n, rd.n, rd.eof,
                        blockWritten(<<>>, SubSeq(r.stream, 1, rd.n)))
    IN  [hash |-> Hex(Sha256(end.digests)), consumed |-> end.consumed]

\* Dropbox.HashLocal: ContentHash of the opened file
HashLocal(data) == ContentHash(data)

\* the content_hash the backend declares for a stored file: the digests of the
\* consecutive blocks, hashed again
RECURSIVE BlockDigests(_)
BlockDigests(data) ==
    IF Len(data) = 0 THEN <<>>
    ELSE LET n == Min(hashBlockSize, Len(data))
         IN  <<Sha256(SubSeq(data, 1, n))>>
                 \o BlockDigests(SubSeq(data, n + 1, Len(data)))

\* files.FileMetadata of a stored file, as ListFolder reports it
FileMetadata(full, data) ==
    [Tag |-> "file", PathDisplay |-> full, Size |-> Len(data),
     ContentHash |-> Hex(Sha256(BlockDigests(data)))]

\* files.FolderMetadata: the listing names folders too
FolderMetadata(full) ==
    [Tag |-> "folder", PathDisplay |-> full, Size |-> 0, ContentHash |-> <<>>]

\* ------------------------------------------------------------------ state
VARIABLES
    localFS,       \* local files: full path -> content
    remoteFS,      \* remote files: full path -> content
    folderExists,  \* the project folder exists on disk
    nsExists,      \* the remote namespace (folder) exists
    skip,          \* relative paths for which the SkipCallback returns true
    mode,          \* "push" (Upload), "pull" (Pull) or "none"
    pc,            \* "idle", "walk", "range", "done"
    remoteFiles,   \* WalkDiffs' remaining map: relative path -> metadata
    walkQueue,     \* entries filepath.Walk has still to visit, in order
    visited,       \* keys the final range over remoteFiles has yielded
    emitted,       \* callbacks of this invocation, in order: <<path, diff>>
    matched,       \* paths removed from remoteFiles without a callback
    calls,         \* backend and filesystem calls of this invocation, in order
    result,        \* "none", "nil", "error" or "ErrNoSuchProject"
    local0,        \* localFS when this invocation started
    remote0,       \* remoteFS when this invocation started
    log,           \* completed invocations, oldest first: [mode, result] of
                   \* the latest two, NoRun in place of those before them
    fn             \* the function a function-level specification applies:
                   \* its name, the inputs drawn and, once applied, the result

syncVars == <<localFS, remoteFS, folderExists, nsExists, skip, mode, pc,
              remoteFiles, walkQueue, visited, emitted, matched, calls, result,
              local0, remote0, log>>

vars == <<syncVars, fn>>

\* the log entry of an invocation older than the latest two
NoRun == [mode |-> "none", result |-> "none"]

\* no function is under evaluation
NoFn == [op |-> "none"]

\* the two sides as maps from relative path to content
LocalView(fs) == [p \in {q \in Paths : Join(folder, q) \in DOMAIN fs} |-> fs[Join(folder, p)]]
RemoteView(fs) ==
    [p \in {q \in Paths : Join(remoteFolder, q) \in DOMAIN fs} |-> fs[Join(remoteFolder, p)]]

\* ------------------------------------------------------------------ Init
\* Up to a renaming of contents, a relative path is in one of six relations
\* between the two sides; the code reads only presence, size and hash.
Relations == {"neither", "onlyLocal", "onlyRemote", "same", "sameSize", "otherSize"}

LocalOf(rel) ==
    CASE rel = "same" -> ContentC
      [] OTHER -> ContentA

RemoteOf(rel) ==
    CASE rel = "same" -> ContentC
      [] rel = "sameSize" -> ContentB
      [] rel = "otherSize" -> ContentC
      [] OTHER -> ContentB

InitLocal(rel) ==
    [f \in {Join(folder, p) : p \in {q \in Paths : rel[q] \notin {"neither", "onlyRemote"}}}
        |-> LocalOf(rel[Rel(folder, f)])]

InitRemote(rel) ==
    [f \in {Join(remoteFolder, p) : p \in {q \in Paths : rel[q] \notin {"neither", "onlyLocal"}}}
        |-> RemoteOf(rel[Rel(remoteFolder, f)])]

\* A path on neither side takes part in nothing and no operation creates it,
\* so up to an order-preserving renaming the paths on neither side are the
\* last ones.
Init ==
    /\ \E rel \in [Paths -> Relations] :
          /\ \A p, q \in Paths : (p < q /\ rel[p] = "neither") => rel[q] = "neither"
          /\ localFS = InitLocal(rel)
          /\ remoteFS = InitRemote(rel)
    /\ folderExists \in (IF DOMAIN localFS = {} THEN BOOLEAN ELSE {TRUE})
    /\ nsExists \in (IF DOMAIN remoteFS = {} THEN BOOLEAN ELSE {TRUE})
    /\ skip \in {{}} \cup {{p} : p \in Paths}
    /\ mode = "none"
    /\ pc = "idle"
    /\ remoteFiles = EmptyMap
    /\ walkQueue = <<>>
    /\ visited = {}
    /\ emitted = <<>>
    /\ matched = {}
    /\ calls = <<>>
    /\ result = "none"
    /\ local0 = localFS
    /\ remote0 = remoteFS
    /\ log = <<>>
    /\ fn = NoFn

\* ------------------------------------------------------------------ backend
\* how a backend or filesystem call ends; n is the number of bytes a copy that
\* broke off had written
Ok == [kind |-> "ok", n |-> 0]
Fail == [kind |-> "fail", n |-> 0]
CallOutcomes == {Ok, Fail}
DownloadOutcomes(data) ==
    CallOutcomes \cup {[kind |-> "partial", n |-> k] : k \in 0..(Len(data) - 1)}

Call(op, path, out) == [op |-> op, path |-> path, ok |-> (out.kind = "ok")]

\* an Upload that reports success and stores nothing
UploadDropped(local, remote, out) == remoteFS
\* Dropbox.Upload(local, remote): overwrite remote with the local file's bytes
Upload(local, remote, out) ==
    IF out.kind = "ok" THEN Put(remoteFS, remote, localFS[local]) ELSE remoteFS

\* a Delete that reports success and removes nothing
DeleteKept(f, out) == remoteFS
\* Dropbox.Delete(f)
Delete(f, out) ==
    IF out.kind = "ok" THEN Remove(remoteFS, f) ELSE remoteFS

\* Dropbox.Download(local, remote): fetch, MkdirAll, os.Create, io.Copy; a copy
\* that breaks off leaves the truncated file with the bytes written so far
Download(local, remote, out) ==
    CASE out.kind = "ok" -> Put(localFS, local, remoteFS[remote])
      [] out.kind = "partial" -> Put(localFS, local, SubSeq(remoteFS[remote], 1, out.n))
      [] OTHER -> localFS

\* os.RemoveAll(localFile)
RemoveAll(f, out) ==
    IF out.kind = "ok" THEN Remove(localFS, f) ELSE localFS

\* ------------------------------------------------------------------ callbacks
\* the callback ProjectRepository.Upload hands to WalkDiffs
UploadCallback(file, diff, out) ==
    LET localFile == Join(folder, file)
        remoteFile == Join(remoteFolder, file)
    IN  CASE diff \in {"Mismatch", "OnlyLocal"} ->
               [local |-> localFS, remote |-> Upload(localFile, remoteFile, out),
                call |-> <<Call("Upload", remoteFile, out)>>, err |-> (out.kind # "ok")]
          [] diff = "OnlyRemote" ->
               [local |-> localFS, remote |-> Delete(remoteFile, out),
                call |-> <<Call("Delete", remoteFile, out)>>, err |-> (out.kind # "ok")]
          [] OTHER ->
               [local |-> localFS, remote |-> remoteFS, call |-> <<>>, err |-> FALSE]

\* the callback ProjectRepository.Pull hands to WalkDiffs
PullCallback(file, diff, out) ==
    LET localFile == Join(folder, file)
        remoteFile == Join(remoteFolder, file)
    IN  CASE diff \in {"Mismatch", "OnlyRemote"} ->
               [local |-> Download(localFile, remoteFile, out), remote |-> remoteFS,
                call |-> <<Call("Download", remoteFile, out)>>, err |-> (out.kind # "ok")]
          [] diff = "OnlyLocal" ->
               [local |-> RemoveAll(localFile, out), remote |-> remoteFS,
                call |-> <<Call("RemoveAll", localFile, out)>>, err |-> (out.kind # "ok")]
          [] OTHER ->
               [local |-> localFS, remote |-> remoteFS, call |-> <<>>, err |-> FALSE]

\* a push that is handed the callback of Pull
cbOfPullOnly(file, diff, out) == PullCallback(file, diff, out)
cb(file, diff, out) ==
    IF mode = "push" THEN UploadCallback(file, diff, out) ELSE PullCallback(file, diff, out)

\* the ways the call behind cb(file, diff) can end
CbOutcomes(file, diff) ==
    IF mode = "pull" /\ diff \in {"Mismatch", "OnlyRemote"}
    THEN DownloadOutcomes(remoteFS[Join(remoteFolder, file)])
    ELSE CallOutcomes

\* ------------------------------------------------------------------ WalkDiffs
\* what ListFolder(remote, recursive) answers in one page: the namespace's
\* folder entry and one file entry per stored file
entList ==
    {FolderMetadata(<<remoteFolder>>)}
        \cup {FileMetadata(f, remoteFS[f]) : f \in DOMAIN remoteFS}

\* the remoteFiles map built from the listing: file entries only, keyed by the
\* path relative to the namespace
Inventory(ents) ==
    LET fileEnts == {e \in ents : e.Tag = "file"}
    IN  [k \in {Rel(remoteFolder, e.PathDisplay) : e \in fileEnts} |->
            CHOOSE e \in fileEnts : Rel(remoteFolder, e.PathDisplay) = k]

RECURSIVE Ascending(_)
Ascending(S) ==
    IF S = {} THEN <<>>
    ELSE LET m == CHOOSE x \in S : \A y \in S : x <= y
         IN  <<m>> \o Ascending(S \ {m})

\* a walk that visits the files in reverse lexical order
WalkEntriesBackwards ==
    LET n == Cardinality(DOMAIN localFS)
        files == Ascending({Rel(folder, f) : f \in DOMAIN localFS})
    IN  <<[file |-> <<folder>>, dir |-> TRUE]>>
            \o [i \in 1..n |-> [file |-> Join(folder, files[n + 1 - i]), dir |-> FALSE]]
\* the entries filepath.Walk(local) visits: the root directory, then the files
\* in lexical order
WalkEntries ==
    LET files == Ascending({Rel(folder, f) : f \in DOMAIN localFS})
    IN  <<[file |-> <<folder>>, dir |-> TRUE]>>
            \o [i \in 1..Len(files) |-> [file |-> Join(folder, files[i]), dir |-> FALSE]]

\* the comparison of a local file with its remote entry: the declared size
\* first, the content hash when the sizes agree
SizeDiffers(metadata, size) == metadata.Size # size

\* a comparison that trusts equal sizes alone
HashNeverDiffers(metadata, hash) == FALSE
HashDiffers(metadata, hash) == metadata.ContentHash # hash

\* a walk that leaves the compared entry in the map
deleteNothing(m, key) == m
\* a removal that empties the map
deleteAll(m, key) == EmptyMap
\* delete(remoteFiles, strippedFile)
delete(m, key) == Remove(m, key)

\* a skip test that excludes every file
SkippedAlways(strippedFile) == TRUE
\* the walk function's skip test
Skipped(strippedFile) == skip # {} /\ strippedFile \in skip

\* the error the walk function acts on after cb returned cbErr: the Mismatch
\* found by hash assigns cb's error to the err declared with hash (line 91),
\* which the test at line 101 does not read
walkFnErr(how, cbErr) == IF how = "hash" THEN FALSE ELSE cbErr

\* the log once a further invocation has started: only the latest completed
\* invocation keeps its entry
Latest(l) == [i \in 1..Len(l) |-> IF i = Len(l) THEN l[i] ELSE NoRun]

\* WalkDiffs (and with it Upload or Pull) returns res
ReturnWith(res) ==
    /\ pc' = "done"
    /\ result' = res
    /\ log' = Append(Latest(log), [mode |-> mode', result |-> res])
    /\ walkQueue' = <<>>
    /\ remoteFiles' = EmptyMap
    /\ visited' = {}

\* the walk function returned nil: filepath.Walk goes on to the next entry
WalkNext(rf) ==
    /\ walkQueue' = Tail(walkQueue)
    /\ remoteFiles' = rf
    /\ pc' = IF Len(walkQueue) = 1 THEN "range" ELSE "walk"
    /\ UNCHANGED <<result, log, visited>>

\* cb(file, diff) is called and its call ends as out
Invoke(file, diff, out) ==
    LET r == cb(file, diff, out)
    IN  /\ localFS' = r.local
        /\ remoteFS' = r.remote
        /\ calls' = calls \o r.call
        /\ emitted' = Append(emitted, <<file, diff>>)

NoCallback == UNCHANGED <<localFS, remoteFS, calls, emitted>>

\* a filesystem call of WalkDiffs or its caller failed: no callback follows
FsError(op, path) ==
    /\ calls' = Append(calls, Call(op, path, Fail))
    /\ UNCHANGED <<localFS, remoteFS, emitted>>

\* a new invocation starts: its history is empty
Fresh(m) ==
    /\ pc \in {"idle", "done"}
    /\ Len(log) < MaxRuns
    /\ mode' = m
    /\ emitted' = <<>>
    /\ matched' = {}
    /\ local0' = localFS
    /\ remote0' = remoteFS
    /\ UNCHANGED <<localFS, remoteFS, skip, fn>>

\* the errors ListFolder can answer with ("nil": none); it answers
\* path/not_found exactly when the namespace does not exist
notFound == "path/not_found/"
ListErrors == {"other"} \cup (IF nsExists THEN {"nil"} ELSE {notFound})

\* a prelude that goes on after every listing error but that of CreateFolderV2
listingErrDropped(err, createErr) == IF err = notFound THEN createErr ELSE "nil"
\* the error WalkDiffs holds after the listing answered err # nil: the one of
\* CreateFolderV2 when err says path/not_found, else err itself
listingErr(err, createErr) == IF err = notFound THEN createErr ELSE err

\* WalkDiffs up to the call of filepath.Walk: list the namespace, create it
\* when the listing says path/not_found, build remoteFiles
WalkDiffsList ==
    LET list(ok) == [op |-> "ListFolder", path |-> <<remoteFolder>>, ok |-> ok]
        create(ok) == [op |-> "CreateFolderV2", path |-> <<remoteFolder>>, ok |-> ok]
        walk(rf) == /\ pc' = "walk"
                    /\ remoteFiles' = rf
                    /\ walkQueue' = WalkEntries
                    /\ visited' = {}
                    /\ result' = "none"
                    /\ log' = Latest(log)
    IN  \E err \in ListErrors :
          \/ /\ err = "nil"
             /\ calls' = <<list(TRUE)>>
             /\ nsExists' = nsExists
             /\ walk(Inventory(entList))
          \/ /\ err # "nil"
             /\ \E createErr \in (IF err = notFound THEN {"nil", "other"} ELSE {"nil"}) :
                   /\ calls' = <<list(FALSE)>>
                                 \o (IF err = notFound THEN <<create(createErr = "nil")>> ELSE <<>>)
                   /\ nsExists' = (nsExists \/ (err = notFound /\ createErr = "nil"))
                   /\ IF listingErr(err, createErr) # "nil"
                      THEN ReturnWith("error")
                      ELSE walk(Inventory({}))

\* an Upload that goes to WalkDiffs without looking at the folder
UploadStartUnchecked ==
    /\ Fresh("push")
    /\ folderExists' = folderExists
    /\ WalkDiffsList
\* ProjectRepository.Upload: os.Stat(folder), then WalkDiffs
UploadStart ==
    /\ Fresh("push")
    /\ folderExists' = folderExists
    /\ \/ /\ ~folderExists
          /\ calls' = <<>>
          /\ nsExists' = nsExists
          /\ ReturnWith("ErrNoSuchProject")
       \/ /\ calls' = <<Call("Stat", <<folder>>, Fail)>>
          /\ nsExists' = nsExists
          /\ ReturnWith("error")
       \/ /\ folderExists
          /\ WalkDiffsList

\* ProjectRepository.Pull: os.MkdirAll(folder), then WalkDiffs
PullStart ==
    /\ Fresh("pull")
    /\ folderExists' = TRUE
    /\ WalkDiffsList

\* the function WalkDiffs hands to filepath.Walk, called for the next entry
WalkFn ==
    /\ pc = "walk"
    /\ UNCHANGED <<folderExists, nsExists, skip, mode, local0, remote0, fn>>
    /\ LET ent == Head(walkQueue)
           file == ent.file
           strippedFile == Rel(folder, file)
           size == Len(localFS[file])
           metadata == remoteFiles[strippedFile]
           exists == strippedFile \in DOMAIN remoteFiles
           emit(diff, how, rf) ==
               \E out \in CbOutcomes(strippedFile, diff) :
                   /\ Invoke(strippedFile, diff, out)
                   /\ matched' = matched
                   /\ IF walkFnErr(how, cb(strippedFile, diff, out).err)
                      THEN ReturnWith("error")
                      ELSE WalkNext(rf)
       IN  \/ /\ FsError("Walk", file)           \* walkErr != nil
              /\ matched' = matched
              /\ ReturnWith("error")
           \/ /\ ent.dir                         \* info.IsDir()
              /\ NoCallback
              /\ matched' = matched
              /\ WalkNext(remoteFiles)
           \/ /\ ~ent.dir
              /\ Skipped(strippedFile)
              /\ NoCallback
              /\ matched' = matched
              /\ WalkNext(remoteFiles)
           \/ /\ ~ent.dir
              /\ ~Skipped(strippedFile)
              /\ ~exists
              /\ emit("OnlyLocal", "onlyLocal", remoteFiles)
           \/ /\ ~ent.dir
              /\ ~Skipped(strippedFile)
              /\ exists
              /\ SizeDiffers(metadata, size)
              /\ emit("Mismatch", "size", delete(remoteFiles, strippedFile))
           \/ /\ ~ent.dir                        \* HashLocal fails
              /\ ~Skipped(strippedFile)
              /\ exists
              /\ ~SizeDiffers(metadata, size)
              /\ FsError("HashLocal", file)
              /\ matched' = matched
              /\ ReturnWith("error")
           \/ /\ ~ent.dir
              /\ ~Skipped(strippedFile)
              /\ exists
              /\ ~SizeDiffers(metadata, size)
              /\ HashDiffers(metadata, HashLocal(localFS[file]))
              /\ emit("Mismatch", "hash", delete(remoteFiles, strippedFile))
           \/ /\ ~ent.dir
              /\ ~Skipped(strippedFile)
              /\ exists
              /\ ~SizeDiffers(metadata, size)
              /\ ~HashDiffers(metadata, HashLocal(localFS[file]))
              /\ NoCallback
              /\ matched' = matched \cup {strippedFile}
              /\ WalkNext(delete(remoteFiles, strippedFile))

\* one iteration of the range over remoteFiles after the walk; Go yields the
\* keys of a map in no fixed order
RangeStep ==
    /\ pc = "range"
    /\ UNCHANGED <<folderExists, nsExists, skip, mode, local0, remote0, matched, fn>>
    /\ \E remotePath \in (DOMAIN remoteFiles) \ visited :
           \E out \in CbOutcomes(remotePath, "OnlyRemote") :
               /\ Invoke(remotePath, "OnlyRemote", out)
               /\ IF cb(remotePath, "OnlyRemote", out).err
                  THEN ReturnWith("error")
                  ELSE /\ visited' = visited \cup {remotePath}
                       /\ UNCHANGED <<pc, result, log, walkQueue, remoteFiles>>

\* the range is exhausted: WalkDiffs returns nil
WalkDiffsReturn ==
    /\ pc = "range"
    /\ visited = DOMAIN remoteFiles
    /\ UNCHANGED <<folderExists, nsExists, skip, mode, local0, remote0, matched, fn>>
    /\ NoCallback
    /\ ReturnWith("nil")

Next ==
    \/ UploadStart
    \/ PullStart
    \/ WalkFn
    \/ RangeStep
    \/ WalkDiffsReturn

Spec == Init /\ [][Next]_vars

\* ------------------------------------------------------------------ ContentHash
\* the synchronisation is at rest in the function-level specifications
AtRest ==
    /\ localFS = EmptyMap /\ folderExists = FALSE
    /\ skip = {} /\ mode = "none" /\ pc = "idle"
    /\ remoteFiles = EmptyMap /\ walkQueue = <<>> /\ visited = {}
    /\ emitted = <<>> /\ matched = {} /\ calls = <<>> /\ result = "none"
    /\ local0 = EmptyMap /\ remote0 = EmptyMap /\ log = <<>>

Idle == AtRest /\ remoteFS = EmptyMap /\ nsExists = FALSE

StreamBytes == {1, 2}
Streams == UNION {[1..n -> StreamBytes] : n \in 0..MaxStream}

RECURSIVE Sum(_)
Sum(q) == IF q = <<>> THEN 0 ELSE Head(q) + Sum(Tail(q))

\* the ways a reader can deliver n bytes: every Read returns at least one byte
\* and at most the buffer's hashBlockSize
Splits(n) ==
    {q \in UNION {[1..k -> 1..hashBlockSize] : k \in 0..n} : Sum(q) = n}

\* the delivery that fills the buffer on every Read
RECURSIVE FullReads(_)
FullReads(n) ==
    IF n = 0 THEN <<>> ELSE <<Min(hashBlockSize, n)>> \o FullReads(n - Min(hashBlockSize, n))

InitHash ==
    /\ Idle
    /\ \E stream \in Streams, eofWithData \in BOOLEAN :
          \E reads \in Splits(Len(stream)) :
              fn = [op |-> "ContentHash",
                    r |-> [stream |-> stream, reads |-> reads, eofWithData |-> eofWithData],
                    done |-> FALSE, hash |-> <<>>, consumed |-> 0]

\* ContentHash(r) is called and returns
ApplyContentHash ==
    /\ fn.op = "ContentHash" /\ ~fn.done
    /\ fn' = [fn EXCEPT !.done = TRUE,
                        !.hash = ContentHashOf(fn.r).hash,
                        !.consumed = ContentHashOf(fn.r).consumed]
    /\ UNCHANGED syncVars

NextHash == ApplyContentHash

SpecHash == InitHash /\ [][NextHash]_vars

\* ------------------------------------------------------------------ inventory
\* sub-folders the namespace may hold besides its files
SubFolders == <<"a", "b">>

Range(q) == {q[i] : i \in 1..Len(q)}

\* every entry of the namespace as the recursive listing names them: the
\* namespace's folder, its sub-folders, its files
AllEntries(subfolders) ==
    LET dirs == SelectSeq(SubFolders, LAMBDA d : d \in subfolders)
        files == Ascending({Rel(remoteFolder, f) : f \in DOMAIN remoteFS})
    IN  <<FolderMetadata(<<remoteFolder>>)>>
            \o [i \in 1..Len(dirs) |-> FolderMetadata(Join(remoteFolder, dirs[i]))]
            \o [i \in 1..Len(files) |->
                    FileMetadata(Join(remoteFolder, files[i]),
                                 remoteFS[Join(remoteFolder, files[i])])]

\* files.ListFolderResult of client.ListFolder when the backend puts pageLen
\* entries on the first page; the rest is to be had with ListFolderContinue
ListFolderResult(entries, pageLen) ==
    [Entries |-> SubSeq(entries, 1, pageLen),
     Cursor |-> pageLen,
     HasMore |-> pageLen < Len(entries)]

\* the prelude of WalkDiffs for a listing that succeeded:
\* entList = folders.Entries, then the loop that fills remoteFiles
remoteFilesOf(folders) == Inventory(Range(folders.Entries))

InitInventory ==
    /\ AtRest
    /\ nsExists = TRUE
    /\ \E present \in SUBSET Paths :
          remoteFS = [f \in {Join(remoteFolder, p) : p \in present} |-> ContentA]
    /\ \E subfolders \in SUBSET Range(SubFolders) :
          \E pageLen \in 1..Len(AllEntries(subfolders)) :
              fn = [op |-> "Inventory", subfolders |-> subfolders, pageLen |-> pageLen,
                    done |-> FALSE, remoteFiles |-> EmptyMap]

\* WalkDiffs lists the namespace and builds remoteFiles
BuildInventory ==
    /\ fn.op = "Inventory" /\ ~fn.done
    /\ fn' = [fn EXCEPT
                 !.done = TRUE,
                 !.remoteFiles =
                     remoteFilesOf(ListFolderResult(AllEntries(fn.subfolders), fn.pageLen))]
    /\ UNCHANGED syncVars

NextInventory == BuildInventory

SpecInventory == InitInventory /\ [][NextInventory]_vars

\* ------------------------------------------------------------------ List
\* names the base folder may hold, in the order ioutil.ReadDir sorts them;
\* a name is its sequence of characters
ItemNames == << <<"a">>, <<"a", "b">>, <<"b">> >>

\* filters: three literal patterns and one that does not compile
Filters == { <<"a">>, <<"b">>, <<"a", "b">>, <<"(">> }

\* regexp.Compile(filter) returns an error: a group is opened and not closed
CompileFails(filter) ==
    Cardinality({i \in 1..Len(filter) : filter[i] = "("})
        # Cardinality({i \in 1..Len(filter) : filter[i] = ")"})

\* re.MatchString(itemName) for a literal pattern: it occurs somewhere in the name
MatchString(re, itemName) ==
    \E i \in 1..(Len(itemName) - Len(re) + 1) :
        SubSeq(itemName, i, i + Len(re) - 1) = re

\* the loop over compiledFilters from filter i on, canWrite holding cw
RECURSIVE canWrite(_, _, _, _)
canWrite(itemName, compiledFilters, i, cw) ==
    IF i > Len(compiledFilters) THEN cw
    ELSE IF ~MatchString(compiledFilters[i], itemName)
         THEN TRUE                                  \* canWrite = true; break
         ELSE canWrite(itemName, compiledFilters, i + 1, cw)

\* ProjectRepository.List(filters...): matches and whether err is set
List(finfo, filters, readDirFails) ==
    IF readDirFails
    THEN [matches |-> <<>>, err |-> TRUE]
    ELSE IF \E i \in 1..Len(filters) : CompileFails(filters[i])
    THEN [matches |-> <<>>, err |-> TRUE]
    ELSE LET dirs == SelectSeq(finfo, LAMBDA f : f.IsDir)
             kept == SelectSeq(dirs, LAMBDA f : canWrite(f.Name, filters, 1, TRUE))
         IN  [matches |-> [i \in 1..Len(kept) |-> kept[i].Name], err |-> FALSE]

\* the entries of the base folder as ioutil.ReadDir returns them
FileInfos(kind) ==
    LET all == [i \in 1..Len(ItemNames) |->
                   [Name |-> ItemNames[i], IsDir |-> (kind[i] = "dir"), kind |-> kind[i]]]
        there == SelectSeq(all, LAMBDA f : f.kind # "absent")
    IN  [i \in 1..Len(there) |-> [Name |-> there[i].Name, IsDir |-> there[i].IsDir]]

InitList ==
    /\ Idle
    /\ \E kind \in [1..Len(ItemNames) -> {"absent", "file", "dir"}] :
          \E filters \in UNION {[1..n -> Filters] : n \in 0..MaxFilters} :
              \E readDirFails \in BOOLEAN :
                  fn = [op |-> "List", finfo |-> FileInfos(kind), filters |-> filters,
                        readDirFails |-> readDirFails,
                        done |-> FALSE, matches |-> <<>>, err |-> FALSE]

\* List(filters...) is called and returns
ApplyList ==
    /\ fn.op = "List" /\ ~fn.done
    /\ fn' = [fn EXCEPT
                 !.done = TRUE,
                 !.matches = List(fn.finfo, fn.filters, fn.readDirFails).matches,
                 !.err = List(fn.finfo, fn.filters, fn.readDirFails).err]
    /\ UNCHANGED syncVars

NextList == ApplyList

SpecList == InitList /\ [][NextList]_vars

\* ------------------------------------------------------------------ keys
\* The WalkDiffs that strips the roots with strings.Replace.  Paths are
\* sequences of characters here.
Slash == "/"

\* the place of the first occurrence of old in str, 0 when there is none
IndexOf(str, old) ==
    LET at == {i \in 1..(Len(str) - Len(old) + 1) : SubSeq(str, i, i + Len(old) - 1) = old}
    IN  IF at = {} THEN 0 ELSE CHOOSE i \in at : \A j \in at : i <= j

\* strings.Replace(str, old, "", 1)
Replace1(str, old) ==
    LET i == IndexOf(str, old)
    IN  IF i = 0 THEN str
        ELSE SubSeq(str, 1, i - 1) \o SubSeq(str, i + Len(old), Len(str))

\* path.Clean as far as it matters here: a run of slashes is one slash
RECURSIVE Clean(_)
Clean(str) ==
    IF Len(str) < 2 THEN str
    ELSE IF str[1] = Slash /\ str[2] = Slash THEN Clean(Tail(str))
    ELSE <<str[1]>> \o Clean(Tail(str))

\* path.Join(a, b)
PathJoin(a, b) == Clean(a \o <<Slash>> \o b)

\* a key for the remote entry that drops the slash after the root as well
remoteKeyTrimmed(PathDisplay, remote) ==
    LET str == Replace1(PathDisplay, remote)
    IN  IF Len(str) > 0 /\ str[1] = Slash THEN Tail(str) ELSE str
\* the key of a remote entry: strings.Replace(ent.PathDisplay, remote, "", 1)
remoteKey(PathDisplay, remote) == Replace1(PathDisplay, remote)

\* the key of a local file: strings.Replace(file, local, "", 1) without its
\* leading separator
strippedFileOf(file, local) ==
    LET str == Replace1(file, local)
    IN  IF (Len(str) > 0 /\ str[1] = Slash) \/ str[1] = "\\" THEN Tail(str) ELSE str

\* relative paths a project may hold, in lexical order
RelPaths == << <<"a">>, <<"b">>, <<"d", Slash, "a">> >>
BaseFolders == { <<Slash, "h">>, <<Slash, "h", Slash, "p">> }
ProjectName == <<"n">>

\* the run of WalkDiffs and of the callback of Upload over it, every call
\* succeeding: the callbacks in order and the remote files afterwards.
\* lfiles and rfiles map relative paths to contents.
PushByKeys(base, lfiles, rfiles) ==
    LET local == PathJoin(base, ProjectName)
        remote == <<Slash>> \o ProjectName
        remoteFilesAll ==
            [k \in {remoteKey(PathJoin(remote, p), remote) : p \in DOMAIN rfiles} |->
                rfiles[CHOOSE p \in DOMAIN rfiles : remoteKey(PathJoin(remote, p), remote) = k]]
        walked == SelectSeq(RelPaths, LAMBDA p : p \in DOMAIN lfiles)
        keyAt(i) == strippedFileOf(PathJoin(local, walked[i]), local)
        diffAt(i) ==
            IF keyAt(i) \notin DOMAIN remoteFilesAll THEN "OnlyLocal"
            ELSE IF remoteFilesAll[keyAt(i)] # lfiles[walked[i]] THEN "Mismatch"
            ELSE "Match"
        walkCbs == SelectSeq([i \in 1..Len(walked) |-> <<keyAt(i), diffAt(i), lfiles[walked[i]]>>],
                             LAMBDA e : e[2] # "Match")
        left == (DOMAIN remoteFilesAll)
                    \ {keyAt(i) : i \in {j \in 1..Len(walked) : diffAt(j) # "OnlyLocal"}}
        uploaded == [f \in {PathJoin(remote, walkCbs[i][1]) : i \in 1..Len(walkCbs)} |->
                        (CHOOSE e \in Range(walkCbs) : PathJoin(remote, e[1]) = f)[3]]
        before == [f \in {PathJoin(remote, p) : p \in DOMAIN rfiles} |->
                      rfiles[CHOOSE p \in DOMAIN rfiles : PathJoin(remote, p) = f]]
        merged == [f \in (DOMAIN before) \cup (DOMAIN uploaded) |->
                      IF f \in DOMAIN uploaded THEN uploaded[f] ELSE before[f]]
        deleted == {PathJoin(remote, k) : k \in left}
    IN  [walk |-> [i \in 1..Len(walkCbs) |-> <<walkCbs[i][1], walkCbs[i][2]>>],
         onlyRemote |-> left,
         remoteAfter |-> [f \in (DOMAIN merged) \ deleted |-> merged[f]]]

InitKeys ==
    /\ Idle
    /\ \E base \in BaseFolders :
          \E lpaths \in SUBSET Range(RelPaths), rpaths \in SUBSET Range(RelPaths) :
              \E rfiles \in [rpaths -> {1, 2}] :
                  fn = [op |-> "PushByKeys", base |-> base,
                        lfiles |-> [p \in lpaths |-> 1], rfiles |-> rfiles,
                        done |-> FALSE, walk |-> <<>>, onlyRemote |-> {},
                        remoteAfter |-> EmptyMap]

\* Upload over the WalkDiffs that strips by replacement is called and returns
ApplyPushByKeys ==
    /\ fn.op = "PushByKeys" /\ ~fn.done
    /\ LET r == PushByKeys(fn.base, fn.lfiles, fn.rfiles)
       IN  fn' = [fn EXCEPT !.done = TRUE, !.walk = r.walk,
                           !.onlyRemote = r.onlyRemote, !.remoteAfter = r.remoteAfter]
    /\ UNCHANGED syncVars

NextKeys == ApplyPushByKeys

SpecKeys == InitKeys /\ [][NextKeys]_vars

\* ------------------------------------------------------------------ Upload
\* what a request body reading f through io.LimitedReader{R: f, N: n} from
\* position pos carries
Limited(data, pos, n) == SubSeq(data, pos + 1, Min(pos + n, Len(data)))

\* a loop that goes on while a full chunk or more remains
moreToAppendOrEqual(size, written) == (size - written) >= chunkSize
\* for (size - written) > chunkSize
moreToAppend(size, written) == (size - written) > chunkSize

\* the UploadSessionAppendV2 requests from written on, then written at the end
RECURSIVE appendLoop(_, _, _)
appendLoop(data, written, reqs) ==
    IF moreToAppend(Len(data), written)
    THEN appendLoop(data, written + chunkSize,
                    Append(reqs, [op |-> "UploadSessionAppendV2", offset |-> written,
                                  body |-> Limited(data, written, chunkSize),
                                  mode |-> "none"]))
    ELSE [reqs |-> reqs, written |-> written]

\* the requests Dropbox.Upload sends for a file holding data, every one of
\* them succeeding
UploadRequests(data) ==
    IF Len(data) > chunkSize
    THEN LET start == [op |-> "UploadSessionStart", offset |-> 0,
                       body |-> Limited(data, 0, chunkSize), mode |-> "none"]
             loop == appendLoop(data, chunkSize, <<start>>)
         IN  Append(loop.reqs,
                    [op |-> "UploadSessionFinish", offset |-> loop.written,
                     body |-> SubSeq(data, loop.written + 1, Len(data)),
                     mode |-> "overwrite"])
    ELSE <<[op |-> "Upload", offset |-> 0, body |-> data, mode |-> "overwrite"]>>

InitUpload ==
    /\ Idle
    /\ \E data \in UNION {[1..n -> StreamBytes] : n \in 0..MaxFile} :
          fn = [op |-> "Upload", data |-> data, done |-> FALSE, requests |-> <<>>]

\* Dropbox.Upload(local, remote) is called and returns nil
ApplyUpload ==
    /\ fn.op = "Upload" /\ ~fn.done
    /\ fn' = [fn EXCEPT !.done = TRUE, !.requests = UploadRequests(fn.data)]
    /\ UNCHANGED syncVars

NextUpload == ApplyUpload

SpecUpload == InitUpload /\ [][NextUpload]_vars

\* ------------------------------------------------------------------ repo commands
\* The state is the config file: ProjectRepositories and PrimaryRepo.  Every
\* command is a process of its own that loads the file, changes the config
\* and writes it back.
RepoNames == {"", "a", "b", "c"}
RepoPaths == {"p", "q"}

\* how config.Write ends: the file holds the new config, or it could not be
\* opened and holds the old one, or it was truncated and not written, after
\* which LoadConfig starts fresh
WriteOutcomes == {"written", "unchanged", "emptied"}

FreshConfig == [repos |-> EmptyMap, primary |-> ""]

Written(old, new, write) ==
    CASE write = "written" -> new
      [] write = "unchanged" -> old
      [] OTHER -> FreshConfig

\* a remove that leaves PrimaryRepo as it is
primaryKept(primary, name) == primary
\* cmdRepoRemove: if config.PrimaryRepo == args[0] { config.PrimaryRepo = "" }
primaryAfterRemove(primary, name) == IF primary = name THEN "" ELSE primary

InitRepo ==
    /\ Idle
    /\ \E names \in SUBSET RepoNames :
          \E repos \in [names -> RepoPaths] :
              \E primary \in {""} \cup names :
                  fn = [op |-> "repo", cfg |-> [repos |-> repos, primary |-> primary],
                        last |-> [cmd |-> "none", arg |-> "", write |-> "unchanged",
                                  before |-> ""]]

\* the file and the record of the command after a command has run
Command(cmd, arg, write, new) ==
    [fn EXCEPT !.cfg = Written(fn.cfg, new, write),
               !.last = [cmd |-> cmd, arg |-> arg, write |-> write,
                         before |-> fn.cfg.primary]]

\* repo add NAME PATH
RepoAdd ==
    /\ fn.op = "repo"
    /\ \E name \in RepoNames, path \in RepoPaths, write \in WriteOutcomes :
          fn' = Command("add", name, write,
                        [fn.cfg EXCEPT !.repos = Put(fn.cfg.repos, name, path)])
    /\ UNCHANGED syncVars

\* repo remove NAME
RepoRemove ==
    /\ fn.op = "repo"
    /\ \E name \in RepoNames, write \in WriteOutcomes :
          fn' = Command("remove", name, write,
                        [repos |-> Remove(fn.cfg.repos, name),
                         primary |-> primaryAfterRemove(fn.cfg.primary, name)])
    /\ UNCHANGED syncVars

\* repo primary REPO: logrus.Fatal ends the process when REPO is unknown
RepoPrimary ==
    /\ fn.op = "repo"
    /\ \E name \in RepoNames, write \in WriteOutcomes :
          fn' = IF name \notin DOMAIN fn.cfg.repos
                THEN Command("primary", name, "unchanged", fn.cfg)
                ELSE Command("primary", name, write, [fn.cfg EXCEPT !.primary = name])
    /\ UNCHANGED syncVars

NextRepo == RepoAdd \/ RepoRemove \/ RepoPrimary

SpecRepo == InitRepo /\ [][NextRepo]_vars

\* ------------------------------------------------------------------ restore
\* ProjectRepository.Restore over a BackupService that records its calls.
RestoreNames == { <<"n">>, <<"m">> }
ResticRepos == {"r1", "r2"}
\* os.Stat(folder): the folder is there, it is not, or Stat fails otherwise
StatOutcomes == {"exists", "notExist", "error"}

\* os.IsNotExist(err)
IsNotExist(stat) == stat = "notExist"

\* fr.Path(name)
Path(base, name) == PathJoin(base, name)

InitRestore ==
    /\ Idle
    /\ \E base \in BaseFolders, name \in RestoreNames, repo \in ResticRepos,
          stat \in StatOutcomes, confirm \in BOOLEAN :
          fn = [op |-> "restore", base |-> base, name |-> name, repo |-> repo,
                stat |-> stat, confirm |-> confirm, asked |-> FALSE,
                bsCalls |-> <<>>, result |-> "none"]

\* Restore: ask before overwriting, then hand the folder to the service
ApplyRestore ==
    /\ fn.op = "restore" /\ fn.result = "none"
    /\ LET dir == Path(fn.base, fn.name)
           asked == ~IsNotExist(fn.stat)
       IN IF asked /\ ~fn.confirm
          THEN fn' = [fn EXCEPT !.asked = TRUE, !.result = "ok"]
          ELSE \E o \in CallOutcomes :
                  fn' = [fn EXCEPT !.asked = asked,
                                   !.bsCalls = Append(@, [op |-> "Backup", folder |-> dir,
                                                          repositories |-> <<fn.repo>>]),
                                   !.result = o.kind]
    /\ UNCHANGED syncVars

NextRestore == ApplyRestore

SpecRestore == InitRestore /\ [][NextRestore]_vars

\* ------------------------------------------------------------------ environment
\* modEnviron over strings as sequences of characters.  The names of Visit's
\* four overrides are shortened to PB, PN, H and f; none is a prefix of
\* another, as in the source.
MaxEnv == 3

Eq == "="
NewVars ==
    [n \in { <<"P", "B">>, <<"P", "N">>, <<"H">>, <<"f">> } |->
        CASE n = <<"P", "B">> -> <<Slash, "h", Slash, "n">>
          [] n = <<"P", "N">> -> <<"n">>
          [] n = <<"H">> -> <<Slash, "h", Slash, "n", "i">>
          [] OTHER -> <<"d">>]

\* os.Environ(): each name once; two overrides already set, a name that
\* starts with an override's name, and a variable with an empty value
EnvPool ==
    { <<"P", "B", Eq, "o">>, <<"H", Eq, "o">>, <<"H", "O", Eq, "v">>, <<"A", Eq>> }
Environs ==
    { e \in UNION {[1..n -> EnvPool] : n \in 0..MaxEnv} :
        \A i, j \in 1..Len(e) : e[i] = e[j] => i = j }

RECURSIVE Perms(_)
Perms(S) ==
    IF S = {} THEN {<<>>}
    ELSE UNION { {<<x>> \o p : p \in Perms(S \ {x})} : x \in S }

\* strings.HasPrefix(str, prefix)
HasPrefix(str, prefix) ==
    Len(str) >= Len(prefix) /\ SubSeq(str, 1, Len(prefix)) = prefix

\* the test of line 36 for the entry v and the override newVar
overrides(newVar, v) ==
    /\ Len(newVar) < Len(v)
    /\ HasPrefix(newVar, v)
    /\ v[Len(newVar) + 1] = Eq

\* append to env, which shares the array of env2 until it outgrows it:
\* [mem, len] while shared, [own] afterwards
append(env, x) ==
    IF env.shared
    THEN IF env.len < Len(env.mem)
         THEN [env EXCEPT !.mem[env.len + 1] = x, !.len = env.len + 1]
         ELSE [shared |-> FALSE, mem |-> env.mem, len |-> 0,
               own |-> SubSeq(env.mem, 1, env.len) \o <<x>>]
    ELSE [env EXCEPT !.own = @ \o <<x>>]

\* the names still in newVars, in the order a range visits them
Ranged(order, left) == SelectSeq(order, LAMBDA n : n \in left)

\* the first loop from entry i on: env2 reads the shared array
RECURSIVE firstLoop(_, _, _, _, _)
firstLoop(env, n, i, left, order) ==
    IF i > n THEN [env |-> env, left |-> left]
    ELSE LET v == env.mem[i]
             hits == SelectSeq(Ranged(order, left), LAMBDA nv : overrides(nv, v))
             env1 == IF hits = <<>> THEN env
                     ELSE append(env, hits[1] \o <<Eq>> \o NewVars[hits[1]])
             left1 == IF hits = <<>> THEN left ELSE left \ {hits[1]}
         IN firstLoop(append(env1, v), n, i + 1, left1, order)

RECURSIVE secondLoop(_, _)
secondLoop(env, rest) ==
    IF rest = <<>> THEN env
    ELSE secondLoop(append(env, Head(rest) \o <<Eq>> \o NewVars[Head(rest)]), Tail(rest))

\* modEnviron for the environment environ, the ranges over newVars
\* visiting the names in the orders order1 and order2
modEnviron(environ, order1, order2) ==
    LET env0 == [shared |-> TRUE, mem |-> environ, len |-> 0, own |-> <<>>]
        one == firstLoop(env0, Len(environ), 1, DOMAIN NewVars, order1)
        env == secondLoop(one.env, Ranged(order2, one.left))
    IN IF env.shared THEN SubSeq(env.mem, 1, env.len) ELSE env.own

InitEnviron ==
    /\ Idle
    /\ \E environ \in Environs :
          fn = [op |-> "environ", environ |-> environ, env |-> <<>>, built |-> FALSE]

ApplyModEnviron ==
    /\ fn.op = "environ" /\ ~fn.built
    /\ \E order1, order2 \in Perms(DOMAIN NewVars) :
          fn' = [fn EXCEPT !.env = modEnviron(fn.environ, order1, order2), !.built = TRUE]
    /\ UNCHANGED syncVars

NextEnviron == ApplyModEnviron

SpecEnviron == InitEnviron /\ [][NextEnviron]_vars

\* ------------------------------------------------------------------ overlap
\* A push and a pull of the same project that overlap.  The two file systems
\* are shared; everything else is local to a call of WalkDiffs.  Every call
\* succeeds unless the other invocation has taken away the file it names.
Invocations == {"push", "pull"}
OverlapPaths == {1, 2}
OverlapContents == {ContentA, ContentB, ContentC}

Sides(root) ==
    UNION { [{Join(root, q) : q \in present} -> OverlapContents] :
              present \in SUBSET OverlapPaths }

NotStarted ==
    [pc |-> "start", sawLocal |-> EmptyMap, listed |-> EmptyMap,
     remoteFiles |-> EmptyMap, walkQueue |-> <<>>, compared |-> {},
     visited |-> {}, result |-> "none"]

\* one map that both invocations read and write
shared(runs, who, r) ==
    [w \in DOMAIN runs |->
        IF w = who THEN r ELSE [runs[w] EXCEPT !.remoteFiles = r.remoteFiles]]
\* the invocation who goes on with the locals r; remoteFiles is a local of
\* its call of WalkDiffs
own(runs, who, r) == [runs EXCEPT ![who] = r]

\* the callback of who for file against the file systems as they are now
callback(who, file, diff, local, remote) ==
    LET localFile == Join(folder, file)
        remoteFile == Join(remoteFolder, file)
        same == [local |-> local, remote |-> remote, err |-> FALSE]
        failed == [local |-> local, remote |-> remote, err |-> TRUE]
    IN  IF who = "push"
        THEN CASE diff \in {"Mismatch", "OnlyLocal"} ->
                    IF localFile \in DOMAIN local
                    THEN [same EXCEPT !.remote = Put(remote, remoteFile, local[localFile])]
                    ELSE failed
               [] diff = "OnlyRemote" ->
                    IF remoteFile \in DOMAIN remote
                    THEN [same EXCEPT !.remote = Remove(remote, remoteFile)]
                    ELSE failed
               [] OTHER -> same
        ELSE CASE diff \in {"Mismatch", "OnlyRemote"} ->
                    IF remoteFile \in DOMAIN remote
                    THEN [same EXCEPT !.local = Put(local, localFile, remote[remoteFile])]
                    ELSE failed
               [] diff = "OnlyLocal" ->
                    [same EXCEPT !.local = Remove(local, localFile)]
               [] OTHER -> same

\* what the listing of the namespace answers for the stored files remote
listing(remote) ==
    {FolderMetadata(<<remoteFolder>>)}
        \cup {FileMetadata(f, remote[f]) : f \in DOMAIN remote}

InitOverlap ==
    /\ Idle
    /\ \E local \in Sides(folder), remote \in Sides(remoteFolder) :
          fn = [op |-> "overlap", local |-> local, remote |-> remote,
                local0 |-> local, remote0 |-> remote,
                runs |-> [w \in Invocations |-> NotStarted]]

\* WalkDiffs up to the first entry of the walk: list the namespace, build
\* remoteFiles, read the folder
OverlapList ==
    /\ fn.op = "overlap"
    /\ \E who \in Invocations :
          /\ fn.runs[who].pc = "start"
          /\ LET files == Ascending({Rel(folder, f) : f \in DOMAIN fn.local})
                 r == [fn.runs[who] EXCEPT
                          !.pc = IF files = <<>> THEN "range" ELSE "walk",
                          !.sawLocal = fn.local,
                          !.listed = fn.remote,
                          !.remoteFiles = Inventory(listing(fn.remote)),
                          !.walkQueue = files]
             IN  fn' = [fn EXCEPT !.runs = own(fn.runs, who, r)]
    /\ UNCHANGED syncVars

\* the walk function for the next file of the folder as it was read
OverlapWalkFn ==
    /\ fn.op = "overlap"
    /\ \E who \in Invocations :
          /\ fn.runs[who].pc = "walk"
          /\ LET run == fn.runs[who]
                 strippedFile == Head(run.walkQueue)
                 file == Join(folder, strippedFile)
                 exists == strippedFile \in DOMAIN run.remoteFiles
                 metadata == run.remoteFiles[strippedFile]
                 how == CASE ~exists -> "onlyLocal"
                          [] SizeDiffers(metadata, Len(fn.local[file])) -> "size"
                          [] HashDiffers(metadata, HashLocal(fn.local[file])) -> "hash"
                          [] OTHER -> "match"
                 diff == CASE how = "onlyLocal" -> "OnlyLocal"
                           [] how = "match" -> "Match"
                           [] OTHER -> "Mismatch"
                 done == callback(who, strippedFile, diff, fn.local, fn.remote)
                 rest == Tail(run.walkQueue)
                 stopped == [run EXCEPT !.pc = "done", !.result = "error"]
                 next == [run EXCEPT
                             !.pc = IF rest = <<>> THEN "range" ELSE "walk",
                             !.walkQueue = rest,
                             !.compared = IF exists THEN @ \cup {strippedFile} ELSE @,
                             !.remoteFiles = IF exists THEN delete(@, strippedFile) ELSE @]
             IN  IF file \notin DOMAIN fn.local                 \* walkErr != nil
                 THEN fn' = [fn EXCEPT !.runs = own(fn.runs, who, stopped)]
                 ELSE fn' = [fn EXCEPT
                                !.local = done.local,
                                !.remote = done.remote,
                                !.runs = own(fn.runs, who,
                                             IF walkFnErr(how, done.err) THEN stopped ELSE next)]
    /\ UNCHANGED syncVars

\* one iteration of the range over what is left in remoteFiles
OverlapRange ==
    /\ fn.op = "overlap"
    /\ \E who \in Invocations :
          /\ fn.runs[who].pc = "range"
          /\ LET run == fn.runs[who]
             IN  \E remotePath \in (DOMAIN run.remoteFiles) \ run.visited :
                   LET done == callback(who, remotePath, "OnlyRemote", fn.local, fn.remote)
                   IN  fn' = [fn EXCEPT
                                 !.local = done.local,
                                 !.remote = done.remote,
                                 !.runs = own(fn.runs, who,
                                     IF done.err
                                     THEN [run EXCEPT !.pc = "done", !.result = "error"]
                                     ELSE [run EXCEPT !.visited = @ \cup {remotePath}])]
    /\ UNCHANGED syncVars

\* the range is exhausted: WalkDiffs returns nil
OverlapReturn ==
    /\ fn.op = "overlap"
    /\ \E who \in Invocations :
          /\ fn.runs[who].pc = "range"
          /\ fn.runs[who].visited = DOMAIN fn.runs[who].remoteFiles
          /\ fn' = [fn EXCEPT !.runs = own(fn.runs, who,
                        [fn.runs[who] EXCEPT !.pc = "done", !.result = "nil"])]
    /\ UNCHANGED syncVars

NextOverlap == OverlapList \/ OverlapWalkFn \/ OverlapRange \/ OverlapReturn

SpecOverlap == InitOverlap /\ [][NextOverlap]_vars

\* ------------------------------------------------------------------ claims
\* the reconciliation calls of this invocation: one per callback
ActionOps == {"Upload", "Delete", "Download", "RemoveAll"}
cbCalls == SelectSeq(calls, LAMBDA c : c.op \in ActionOps)
AllCbOk == \A i \in 1..Len(cbCalls) : cbCalls[i].ok

\* the two sides when the invocation started, by relative path
Local0 == LocalView(local0)
Remote0 == RemoteView(remote0)

\* the local files the walk compares: all of them when there is no skip predicate
Scanned == (DOMAIN Local0) \ skip

Callbacks(p) == {j \in 1..Len(emitted) : emitted[j][1] = p}

\* the classifications p has received; Match is the removal without a callback
Classes(p) ==
    {emitted[j][2] : j \in Callbacks(p)} \cup (IF p \in matched THEN {"Match"} ELSE {})

Times(p) == Cardinality(Callbacks(p)) + (IF p \in matched THEN 1 ELSE 0)

Finished == pc = "done" /\ result = "nil"

\* the invocation before the current (or just completed) one
PrevRun ==
    IF pc = "done"
    THEN (IF Len(log) >= 2 THEN log[Len(log) - 1] ELSE NoRun)
    ELSE (IF Len(log) >= 1 THEN log[Len(log)] ELSE NoRun)

\* C1: with no skip predicate and no failing callback, no relative path gets
\* the callback twice or a callback and a silent removal, and a pass that ran
\* to its end has classified every path present on either side exactly once
\* (and no other path).
C1_ExactlyOnce ==
    (skip = {} /\ AllCbOk) =>
        /\ \A p \in Paths : Times(p) <= 1
        /\ Finished =>
              \A p \in Paths :
                  Times(p) = (IF p \in (DOMAIN Local0) \cup (DOMAIN Remote0) THEN 1 ELSE 0)

C1_Witness ==
    /\ Finished /\ skip = {} /\ AllCbOk
    /\ matched # {}
    /\ \E i, j \in 1..Len(emitted) :
          emitted[i][2] = "OnlyLocal" /\ emitted[j][2] = "OnlyRemote"

\* the set-algebra reference of C2 over the compared local files and the
\* remote files; a collision-free hash differs exactly when the content does
Reference(p) ==
    LET inL == p \in Scanned
        inR == p \in DOMAIN Remote0
    IN  CASE inL /\ ~inR -> {"OnlyLocal"}
          [] ~inL /\ inR -> {"OnlyRemote"}
          [] inL /\ inR ->
               IF Len(Local0[p]) # Len(Remote0[p]) \/ Local0[p] # Remote0[p]
               THEN {"Mismatch"}
               ELSE {"Match"}
          [] OTHER -> {}

\* C2: a pass that ran to its end has given every path the classification of
\* the reference: OnlyLocal for local minus remote, OnlyRemote for remote
\* minus local, Mismatch for both sides with differing size or hash, Match
\* (no callback) for both sides with equal size and hash.
C2_MatchesReference ==
    Finished => \A p \in Paths : Classes(p) = Reference(p)

C2_Witness ==
    /\ Finished
    /\ \E p \in Paths :
          /\ Classes(p) = {"Mismatch"}
          /\ p \in DOMAIN Remote0
          /\ Len(Local0[p]) = Len(Remote0[p])
    /\ \E p \in Paths :
          /\ Classes(p) = {"Mismatch"}
          /\ p \in DOMAIN Remote0
          /\ Len(Local0[p]) # Len(Remote0[p])
    /\ \E p \in Paths : Classes(p) = {"Match"}

\* paths on both sides with equal size and different content
SameSizeOtherHash ==
    {p \in Scanned \cap (DOMAIN Remote0) :
        Len(Local0[p]) = Len(Remote0[p]) /\ Local0[p] # Remote0[p]}

\* C3: a path on both sides with equal declared size and different hash is
\* classified Mismatch, never Match; after a push that returned success the
\* remote copy holds the local content, after a pull that returned success
\* the local copy holds the remote content.
C3_HashMismatchOverwrites ==
    Finished =>
        \A p \in SameSizeOtherHash :
            /\ Classes(p) = {"Mismatch"}
            /\ mode = "push" =>
                  /\ p \in DOMAIN RemoteView(remoteFS)
                  /\ RemoteView(remoteFS)[p] = Local0[p]
            /\ mode = "pull" =>
                  /\ p \in DOMAIN LocalView(localFS)
                  /\ LocalView(localFS)[p] = Remote0[p]

\* C4: a local file the skip predicate excludes appears in no callback, and
\* neither its local nor its remote copy is touched.
C4_SkippedUntouched ==
    \A p \in skip \cap (DOMAIN Local0) :
        /\ Callbacks(p) = {}
        /\ p \in DOMAIN LocalView(localFS) /\ LocalView(localFS)[p] = Local0[p]
        /\ (p \in DOMAIN Remote0) =>
              (p \in DOMAIN RemoteView(remoteFS) /\ RemoteView(remoteFS)[p] = Remote0[p])

\* C5: once a callback has returned an error, whatever its classification,
\* the invocation calls no further callback: a failed action is the last one.
C5_ErrorEndsTraversal ==
    \A i \in 1..Len(cbCalls) : ~cbCalls[i].ok => i = Len(cbCalls)

\* C6: an invocation in which a reconciliation action failed returns the
\* error; a nil return means every action succeeded.
C6_NilMeansAllSucceeded ==
    pc = "done" =>
        /\ ~AllCbOk => result = "error"
        /\ result = "nil" => AllCbOk

\* the one action push takes for a callback
PushAction(e) ==
    [op |-> IF e[2] = "OnlyRemote" THEN "Delete" ELSE "Upload",
     path |-> Join(remoteFolder, e[1])]

\* the one action pull takes for a callback
PullAction(e) ==
    [op |-> IF e[2] = "OnlyLocal" THEN "RemoveAll" ELSE "Download",
     path |-> IF e[2] = "OnlyLocal" THEN Join(folder, e[1]) ELSE Join(remoteFolder, e[1])]

ActionsFollow(action(_)) ==
    /\ Len(cbCalls) = Len(emitted)
    /\ \A i \in 1..Len(emitted) :
          [op |-> cbCalls[i].op, path |-> cbCalls[i].path] = action(emitted[i])

\* C7: push takes one action per callback, in emission order (upload for
\* Mismatch and OnlyLocal, delete for OnlyRemote), and a push that returned
\* success has made the remote files equal to the local ones.
C7_PushConverges ==
    mode = "push" =>
        /\ ActionsFollow(PushAction)
        /\ (Finished /\ skip = {}) => RemoteView(remoteFS) = LocalView(localFS)

\* C8: pull takes one action per callback, in emission order (download for
\* Mismatch and OnlyRemote, local removal for OnlyLocal), and a pull that
\* returned success has made the local files equal to the remote ones.
C8_PullConverges ==
    mode = "pull" =>
        /\ ActionsFollow(PullAction)
        /\ (Finished /\ skip = {}) => LocalView(localFS) = RemoteView(remoteFS)

\* C9: in the invocation that follows a push that returned success no
\* callback is invoked, so no upload and no delete is issued.
C9_RediffAllMatch ==
    PrevRun = [mode |-> "push", result |-> "nil"] => (emitted = <<>> /\ cbCalls = <<>>)

\* C10: after a pull that returned success followed by a push that returned
\* success both sides hold the same paths with the same contents.
C10_PullPushConverges ==
    (Finished /\ mode = "push" /\ skip = {}
        /\ PrevRun = [mode |-> "pull", result |-> "nil"]) =>
            LocalView(localFS) = RemoteView(remoteFS)

\* the calls of this invocation that failed for good; a listing that answered
\* path/not_found is made good by the CreateFolderV2 that follows it
Faults ==
    {i \in 1..Len(calls) :
        ~calls[i].ok /\ ~(calls[i].op = "ListFolder" /\ i < Len(calls))}

\* what the walk and the final range have still to go through
Remaining == Len(walkQueue) + Cardinality((DOMAIN remoteFiles) \ visited)

\* a push that follows a push that returned an error
Repush == mode = "push" /\ PrevRun = [mode |-> "push", result |-> "error"]

\* C11: a push that follows a failed push and meets no failing call comes to
\* its end (each step of it is enabled and lessens what remains to be gone
\* through), returns success and leaves the remote files equal to the local
\* ones, whatever the failed push had applied.
C11_RepushConverges ==
    /\ [](Repush =>
            /\ pc \in {"walk", "range"} => ENABLED (WalkFn \/ RangeStep \/ WalkDiffsReturn)
            /\ (pc = "done" /\ folderExists /\ skip = {} /\ Faults = {}) =>
                  (result = "nil" /\ RemoteView(remoteFS) = LocalView(localFS)))
    /\ [][(Repush /\ pc \in {"walk", "range"}) =>
            (pc' = "done" \/ Remaining' < Remaining)]_vars

C11_Witness ==
    /\ Repush /\ Finished /\ skip = {} /\ Faults = {}
    /\ Remote0 # Local0
    /\ \E i, j \in 1..Len(cbCalls) : cbCalls[i].op = "Upload" /\ cbCalls[j].op = "Delete"

\* the listing of this invocation answered path/not_found, and WalkDiffs went
\* on to create the namespace
ListedNotFound ==
    /\ Len(calls) >= 2
    /\ calls[1].op = "ListFolder" /\ ~calls[1].ok
    /\ calls[2].op = "CreateFolderV2"

\* every local file was classified OnlyLocal and its content stored remotely
AllUploadedAsOnlyLocal ==
    \A p \in DOMAIN Local0 :
        /\ Classes(p) = {"OnlyLocal"}
        /\ p \in DOMAIN RemoteView(remoteFS)
        /\ RemoteView(remoteFS)[p] = Local0[p]

Hashed == fn.op = "ContentHash" /\ fn.done

\* the same stream delivered in full blocks
FullReader(r) == [r EXCEPT !.reads = FullReads(Len(r.stream))]

\* C13: however the reader splits the stream into Read results, ContentHash
\* returns the fingerprint it returns for the delivery in full blocks, and it
\* has read every byte of the stream.
C13_ChunkingIndependent ==
    Hashed =>
        /\ fn.hash = ContentHashOf(FullReader(fn.r)).hash
        /\ fn.consumed = Len(fn.r.stream)

\* the consecutive blocks of hashBlockSize bytes of a stream, the last one
\* possibly shorter, none empty
NumBlocks(stream) == (Len(stream) + hashBlockSize - 1) \div hashBlockSize
Block(stream, i) ==
    SubSeq(stream, (i - 1) * hashBlockSize + 1, Min(i * hashBlockSize, Len(stream)))

\* C14: for a reader that fills the buffer on every Read, ContentHash is
\* hex(H(H(b1) ++ ... ++ H(bk))) over the consecutive blocks b1..bk of the
\* stream: one block for a stream shorter than a block, no empty trailing
\* block for an exact multiple, hex(H(empty)) for the empty stream.
C14_BlockHashFormula ==
    (Hashed /\ fn.r.reads = FullReads(Len(fn.r.stream))) =>
        /\ fn.hash = Hex(Sha256([i \in 1..NumBlocks(fn.r.stream) |->
                                    Sha256(Block(fn.r.stream, i))]))
        /\ fn.hash = ContentHash(fn.r.stream)
        /\ fn.r.stream = <<>> => fn.hash = Hex(Sha256(<<>>))

C14_Witness ==
    /\ Hashed /\ fn.r.reads = FullReads(Len(fn.r.stream))
    /\ Len(fn.r.stream) = 2 * hashBlockSize
    /\ ~fn.r.eofWithData
    /\ fn.hash = Hex(Sha256(<<Sha256(Block(fn.r.stream, 1)), Sha256(Block(fn.r.stream, 2))>>))

\* C15: the inventory WalkDiffs builds holds every file of the namespace under
\* its path relative to the namespace, with that file's metadata, and no
\* folder entry, also when the listing comes in more than one page.
C15_InventoryComplete ==
    (fn.op = "Inventory" /\ fn.done) =>
        /\ DOMAIN fn.remoteFiles = {Rel(remoteFolder, f) : f \in DOMAIN remoteFS}
        /\ \A k \in DOMAIN fn.remoteFiles :
              fn.remoteFiles[k] =
                  FileMetadata(Join(remoteFolder, k), remoteFS[Join(remoteFolder, k)])

WalkDiffKinds == {"OnlyLocal", "Mismatch"}

\* C16: OnlyLocal and Mismatch callbacks occur during the local walk and in
\* walk (lexical) order; OnlyRemote callbacks occur only once the walk is
\* over, so none precedes an OnlyLocal or Mismatch callback.
C16_Ordering ==
    /\ pc = "walk" => \A j \in 1..Len(emitted) : emitted[j][2] \in WalkDiffKinds
    /\ pc = "range" => walkQueue = <<>>
    /\ \A i, j \in 1..Len(emitted) :
          i < j =>
              /\ emitted[i][2] = "OnlyRemote" => emitted[j][2] = "OnlyRemote"
              /\ (emitted[i][2] \in WalkDiffKinds /\ emitted[j][2] \in WalkDiffKinds) =>
                    emitted[i][1] < emitted[j][1]

C16_Witness ==
    /\ Len(emitted) = 3
    /\ emitted[1][2] = "Mismatch"
    /\ emitted[2][2] = "OnlyLocal"
    /\ emitted[3][2] = "OnlyRemote"
    /\ emitted[3][1] < emitted[1][1]

\* the content view now holds for p is the one before had (the file is
\* untouched) or the one the other side had (the file is fully transferred)
WholeFile(now, before, other, p) ==
    p \in DOMAIN now =>
        \/ p \in DOMAIN before /\ now[p] = before[p]
        \/ p \in DOMAIN other /\ now[p] = other[p]

\* C17: at every point of an invocation, also after a failed action, every
\* local and every remote file is absent or holds its complete content of
\* before the action or its complete content of after it; a Download that
\* fails leaves no truncated or partly written local file.
C17_FileAtomicity ==
    \A p \in Paths :
        /\ WholeFile(LocalView(localFS), Local0, Remote0, p)
        /\ WholeFile(RemoteView(remoteFS), Remote0, Local0, p)

\* the sub-directories of the base folder whose name matches every filter
MatchingDirs ==
    {fn.finfo[i].Name : i \in {j \in 1..Len(fn.finfo) :
        /\ fn.finfo[j].IsDir
        /\ \A k \in 1..Len(fn.filters) : MatchString(fn.filters[k], fn.finfo[j].Name)}}

\* C18: when the base folder can be read, List returns exactly the
\* sub-directories whose name matches every filter (all of them when there is
\* no filter), each once and never an entry that is not a directory; a filter
\* that does not compile yields an error and no matches.
C18_ListFilters ==
    (fn.op = "List" /\ fn.done /\ ~fn.readDirFails) =>
        IF \E k \in 1..Len(fn.filters) : CompileFails(fn.filters[k])
        THEN fn.err /\ fn.matches = <<>>
        ELSE /\ ~fn.err
             /\ Range(fn.matches) = MatchingDirs
             /\ Len(fn.matches) = Cardinality(MatchingDirs)

\* the listing of this invocation failed with an error other than
\* path/not_found
ListingFailed ==
    /\ Len(calls) >= 1
    /\ calls[1].op = "ListFolder" /\ ~calls[1].ok
    /\ ~ListedNotFound

\* C19: when the initial listing fails with an error other than
\* path/not_found, WalkDiffs has returned that error without looking at a
\* local file: no callback, no classification, no further call, and both
\* sides as they were.
C19_ListErrorAborts ==
    ListingFailed =>
        /\ pc = "done" /\ result = "error"
        /\ Len(calls) = 1
        /\ emitted = <<>> /\ matched = {}
        /\ localFS = local0 /\ remoteFS = remote0

C19_Witness ==
    /\ ListingFailed
    /\ nsExists
    /\ DOMAIN Local0 # {}
    /\ \E p \in DOMAIN Local0 : p \notin DOMAIN Remote0
    /\ \E p \in DOMAIN Remote0 : p \notin DOMAIN Local0

\* the classifications the walk function has given p
WalkTimes(p) ==
    Cardinality({j \in Callbacks(p) : emitted[j][2] \in WalkDiffKinds})
        + (IF p \in matched THEN 1 ELSE 0)

FsOps == {"Walk", "HashLocal"}

\* C20: a walk that ran to its end has examined every local file (that the
\* skip predicate does not exclude) exactly once; only files are classified,
\* never the directory; and when filepath.Walk reports an error for an entry
\* or HashLocal fails, WalkDiffs returns the error at once: that call is the
\* invocation's last and no OnlyRemote callback has been issued.
C20_WalkOnceFailFast ==
    /\ \A p \in Paths : WalkTimes(p) <= 1
    /\ Finished => \A p \in Scanned : WalkTimes(p) = 1
    /\ \A j \in 1..Len(emitted) :
          emitted[j][2] \in WalkDiffKinds => Join(folder, emitted[j][1]) \in DOMAIN local0
    /\ \A i \in 1..Len(calls) :
          (calls[i].op \in FsOps /\ ~calls[i].ok) =>
              /\ i = Len(calls)
              /\ pc = "done" /\ result = "error"
              /\ \A j \in 1..Len(emitted) : emitted[j][2] # "OnlyRemote"

C20_Witness ==
    /\ pc = "done"
    /\ Len(calls) >= 3
    /\ calls[Len(calls)].op = "HashLocal" /\ ~calls[Len(calls)].ok
    /\ Len(emitted) >= 1
    /\ \E p \in DOMAIN Remote0 : p \notin DOMAIN Local0

\* the listing as it was when the invocation started: the metadata of the
\* remote file with the relative path p
Snapshot(p) == FileMetadata(Join(remoteFolder, p), remote0[Join(remoteFolder, p)])

\* the relative paths the local walk has met on both sides
MetInWalk ==
    matched \cup {emitted[j][1] : j \in {k \in 1..Len(emitted) : emitted[k][2] = "Mismatch"}}

\* C21: an invocation asks for the listing once, as its first backend call;
\* while it runs, the remaining map is the snapshot taken then less the
\* paths the local walk has met, whatever has been written remotely since:
\* a part of the snapshot that only shrinks, and only by paths met locally.
C21_SnapshotOnce ==
    /\ [](/\ \A i \in 1..Len(calls) :
                calls[i].op = "ListFolder" => i = 1
          /\ (calls # <<>> /\ calls[1].op # "Stat") => calls[1].op = "ListFolder"
          /\ pc \in {"walk", "range"} =>
                LET listed == DOMAIN Remote0
                    met == MetInWalk
                IN  /\ met \subseteq listed
                    /\ DOMAIN remoteFiles = listed \ met
                    /\ \A p \in DOMAIN remoteFiles : remoteFiles[p] = Snapshot(p))
    /\ [][(pc \in {"walk", "range"} /\ pc' \in {"walk", "range"}) =>
            /\ remote0' = remote0
            /\ DOMAIN remoteFiles' \subseteq DOMAIN remoteFiles
            /\ \A p \in DOMAIN remoteFiles' : remoteFiles'[p] = remoteFiles[p]]_vars

C21_Witness ==
    /\ pc = "range"
    /\ mode = "push"
    /\ remoteFS # remote0
    /\ matched # {}
    /\ \E j \in 1..Len(emitted) : emitted[j][2] = "Mismatch"
    /\ DOMAIN remoteFiles # {}

\* C24: a push never creates, changes or removes a local file: at every point
\* of it, whatever the diff and whether calls fail, the local files are those
\* of its start, and it issues no call that writes locally.
C24_PushKeepsLocal ==
    mode = "push" =>
        /\ localFS = local0
        /\ \A i \in 1..Len(calls) : calls[i].op \notin {"Download", "RemoveAll"}

C24_Witness ==
    /\ mode = "push" /\ pc = "done" /\ result = "error"
    /\ \E i, j \in 1..Len(cbCalls) :
          /\ cbCalls[i].op = "Upload" /\ cbCalls[i].ok
          /\ cbCalls[j].op = "Delete" /\ ~cbCalls[j].ok
    /\ remoteFS # remote0

RemoteWrites == {"Upload", "Delete", "CreateFolderV2"}

\* C25: a pull issues no upload, no delete and no other call that changes
\* the remote side: the remote files are those of its start, also when the
\* namespace did not exist.
C25_PullKeepsRemote ==
    mode = "pull" =>
        /\ remoteFS = remote0
        /\ \A i \in 1..Len(calls) : calls[i].op \notin RemoteWrites

\* what a pull does keep to: no upload, no delete, no remote file changed; its
\* one remote write is the CreateFolderV2 after a listing answered
\* path/not_found
PullCreatesAtMost ==
    mode = "pull" =>
        /\ remoteFS = remote0
        /\ \A i \in 1..Len(calls) :
              /\ calls[i].op \notin {"Upload", "Delete"}
              /\ calls[i].op = "CreateFolderV2" =>
                    (i = 2 /\ ListedNotFound /\ DOMAIN Remote0 = {})

\* C26: an Upload on a project whose folder does not exist is over at once
\* with ErrNoSuchProject (or with the error os.Stat gave) and has made no
\* backend call: no listing, no callback, the remote files untouched.
C26_NoSuchProject ==
    (mode = "push" /\ ~folderExists) =>
        /\ pc = "done"
        /\ \/ result = "ErrNoSuchProject" /\ calls = <<>>
           \/ result = "error" /\ calls = <<Call("Stat", <<folder>>, Fail)>>
        /\ emitted = <<>> /\ matched = {}
        /\ remoteFS = remote0 /\ localFS = local0

C26_Witness ==
    /\ mode = "push" /\ ~folderExists
    /\ result = "ErrNoSuchProject"
    /\ Cardinality(DOMAIN Remote0) >= 2

\* C23: in the WalkDiffs that strips the roots by replacement, a relative path
\* gets the same key as a local file and as a remote entry; a file on both
\* sides is not reported OnlyLocal and OnlyRemote, and after the push the
\* remote side holds it with the local content.
C23_SameKeyBothSides ==
    (fn.op = "PushByKeys" /\ fn.done) =>
        LET local == PathJoin(fn.base, ProjectName)
            remote == <<Slash>> \o ProjectName
        IN  \A p \in (DOMAIN fn.lfiles) \cap (DOMAIN fn.rfiles) :
                /\ strippedFileOf(PathJoin(local, p), local)
                       = remoteKey(PathJoin(remote, p), remote)
                /\ ~(/\ <<strippedFileOf(PathJoin(local, p), local), "OnlyLocal">> \in Range(fn.walk)
                      /\ remoteKey(PathJoin(remote, p), remote) \in fn.onlyRemote)
                /\ PathJoin(remote, p) \in DOMAIN fn.remoteAfter
                /\ fn.remoteAfter[PathJoin(remote, p)] = fn.lfiles[p]

RECURSIVE Concat(_)
Concat(q) == IF q = <<>> THEN <<>> ELSE Head(q) \o Concat(Tail(q))

Bodies(reqs) == [i \in 1..Len(reqs) |-> reqs[i].body]

\* C27: a file of more than chunkSize bytes goes out as one session start of
\* chunkSize bytes, appends of chunkSize bytes while more than chunkSize
\* bytes remain, and one finish with the remaining 1..chunkSize bytes; every
\* offset is the number of bytes sent before, and the bodies in order are the
\* file; a file of at most chunkSize bytes goes out in one overwriting Upload.
C27_ChunkedUpload ==
    (fn.op = "Upload" /\ fn.done) =>
        LET reqs == fn.requests
            n == Len(reqs)
            size == Len(fn.data)
        IN  /\ Concat(Bodies(reqs)) = fn.data
            /\ \A i \in 1..n : reqs[i].offset = Len(Concat(Bodies(SubSeq(reqs, 1, i - 1))))
            /\ reqs[n].mode = "overwrite"
            /\ IF size > chunkSize
               THEN /\ n >= 2
                    /\ reqs[1].op = "UploadSessionStart" /\ Len(reqs[1].body) = chunkSize
                    /\ \A i \in 2..(n - 1) :
                          /\ reqs[i].op = "UploadSessionAppendV2"
                          /\ Len(reqs[i].body) = chunkSize
                          /\ size - reqs[i].offset > chunkSize
                    /\ reqs[n].op = "UploadSessionFinish"
                    /\ Len(reqs[n].body) \in 1..chunkSize
               ELSE n = 1 /\ reqs[1].op = "Upload" /\ reqs[1].body = fn.data

C27_Witness ==
    /\ fn.op = "Upload" /\ fn.done
    /\ Len(fn.data) = 3 * chunkSize
    /\ Len(fn.requests) = 3
    /\ fn.requests[2].op = "UploadSessionAppendV2"
    /\ fn.requests[3].offset = 2 * chunkSize
    /\ Len(fn.requests[3].body) = chunkSize

\* C28: after any sequence of repo add, repo remove and repo primary the
\* config's PrimaryRepo is empty or a key of ProjectRepositories; a remove of
\* the primary repository that was written left PrimaryRepo empty, and a repo
\* primary on an unknown name changed nothing.
C28_PrimaryIsKnown ==
    /\ [](fn.op = "repo" =>
            /\ fn.cfg.primary \in {""} \cup DOMAIN fn.cfg.repos
            /\ (fn.last.cmd = "remove" /\ fn.last.write = "written"
                    /\ fn.last.before = fn.last.arg) => fn.cfg.primary = "")
    /\ [][(fn.op = "repo" /\ fn'.last.cmd = "primary"
                /\ fn'.last.arg \notin DOMAIN fn.cfg.repos) => fn'.cfg = fn.cfg]_vars

C28_Witness ==
    /\ fn.op = "repo"
    /\ fn.last = [cmd |-> "remove", arg |-> "a", write |-> "written", before |-> "a"]
    /\ fn.cfg.primary = ""
    /\ DOMAIN fn.cfg.repos = {"b", "c"}

\* C29: when Restore has returned, the backup service was asked to Restore
\* the project folder from the repository exactly once, and never to Backup,
\* if the folder was absent or the user confirmed; it was asked nothing if
\* the user declined.
C29_RestoreRestores ==
    (fn.op = "restore" /\ fn.result # "none") =>
        IF fn.stat = "notExist" \/ fn.confirm
        THEN fn.bsCalls = << [op |-> "Restore", folder |-> Path(fn.base, fn.name),
                              repository |-> fn.repo] >>
        ELSE fn.bsCalls = <<>>

\* the part of it that the code keeps: one call for the folder, or none
\* after the user declined, and the user is asked only about a folder that
\* Stat did not report absent
RestoreCallsOnce ==
    (fn.op = "restore" /\ fn.result # "none") =>
        /\ fn.asked = (fn.stat # "notExist")
        /\ IF fn.stat = "notExist" \/ fn.confirm
           THEN Len(fn.bsCalls) = 1 /\ fn.bsCalls[1].folder = Path(fn.base, fn.name)
           ELSE fn.bsCalls = <<>>

\* the name of an environment entry: what stands before its first "="
NameOf(v) == IF IndexOf(v, <<Eq>>) = 0 THEN v ELSE SubSeq(v, 1, IndexOf(v, <<Eq>>) - 1)
Bindings(env, name) == {i \in 1..Len(env) : NameOf(env[i]) = name}

\* C30: the environment modEnviron builds holds every override name exactly
\* once, bound to its new value, and every other variable of the original
\* environment exactly once and unchanged, also when an override name is
\* already set in the original environment.
C30_OverridesOnce ==
    (fn.op = "environ" /\ fn.built) =>
        /\ \A n \in DOMAIN NewVars :
              \E i \in 1..Len(fn.env) :
                  /\ Bindings(fn.env, n) = {i}
                  /\ fn.env[i] = n \o <<Eq>> \o NewVars[n]
        /\ \A k \in 1..Len(fn.environ) :
              NameOf(fn.environ[k]) \notin DOMAIN NewVars =>
                  \E i \in 1..Len(fn.env) :
                      /\ Bindings(fn.env, NameOf(fn.environ[k])) = {i}
                      /\ fn.env[i] = fn.environ[k]
        /\ \A i \in 1..Len(fn.env) :
              \/ NameOf(fn.env[i]) \in DOMAIN NewVars
              \/ \E k \in 1..Len(fn.environ) : fn.environ[k] = fn.env[i]

\* what the code builds: the original environment as it was, followed by
\* the four overrides in some order
EnvironAppended ==
    (fn.op = "environ" /\ fn.built) =>
        /\ Len(fn.env) = Len(fn.environ) + 4
        /\ SubSeq(fn.env, 1, Len(fn.environ)) = fn.environ
        /\ {fn.env[i] : i \in (Len(fn.environ) + 1)..Len(fn.env)}
              = {n \o <<Eq>> \o NewVars[n] : n \in DOMAIN NewVars}

\* C22: a push and a pull that overlap share no state in memory: the map an
\* invocation holds is its own listing less the files it has compared
\* itself, whatever the other one does, and a step changes the locals of one
\* invocation only.  They are not safe all the same: C22_Witness is a state
\* both reach from the same snapshot, both returning nil, with different
\* files on the two sides.
C22_OwnRemaining ==
    /\ [](fn.op = "overlap" =>
            \A who \in Invocations :
                LET run == fn.runs[who]
                    snapshot == Inventory(listing(run.listed))
                IN  run.remoteFiles
                        = [k \in (DOMAIN snapshot) \ run.compared |-> snapshot[k]])
    /\ [][fn.op = "overlap" =>
            \E who \in Invocations :
                \A other \in Invocations \ {who} : fn'.runs[other] = fn.runs[other]]_vars

C22_Witness ==
    /\ fn.op = "overlap"
    /\ \A who \in Invocations :
          /\ fn.runs[who].result = "nil"
          /\ fn.runs[who].sawLocal = fn.local0
          /\ fn.runs[who].listed = fn.remote0
    /\ LocalView(fn.local) # RemoteView(fn.remote)

====
